---- MODULE Spec2Model ----
(***************************************************************************)
(* AudioCheck: the review session of audiocheck_gui.py over the results    *)
(* table written by audiocheck_transcriber.py.                             *)
(*                                                                         *)
(* Strings are sequences of one-character strings.  A missing value of a   *)
(* data frame (pandas NaN) is the one-element sequence NaN, which is no    *)
(* string of the alphabet.  Row labels of the data frame are 1..n (the     *)
(* pandas RangeIndex 0..n-1 shifted by one); 0 stands for a key that is    *)
(* not in st.session_state.  Similarity scores are kept in thousandths,    *)
(* rounded down; the thresholds of the slider are multiples of 50, so      *)
(* every comparison of a score with a threshold is preserved.              *)
(***************************************************************************)
EXTENDS Integers, Sequences, FiniteSets, TLC

(***************************************************************************)
(* Bounds of the model.                                                    *)
(***************************************************************************)
\* number of rows of the participant's manifest
NumTrials == 3

\* slider positions of the confidence threshold that the reviewer uses,
\* in thousandths (the slider runs from 0.0 to 1.0 in steps of 0.05)
Thresholds == {800, 1000}

\* texts the reviewer types into the "Edit Transcription" input
EditTexts == {<<>>, <<"a", "b">>}

\* the longest manifest a run of the batch job reads
MaxManifestRows == 2

\* the most browser tabs that are connected at a time
MaxSessions == 3

\* the steps, in seconds, in which the time of the watchdog passes
TimeSteps == {1, 5}

(***************************************************************************)
(* Strings                                                                 *)
(***************************************************************************)
NaN == <<"nan">>

Range(s) == {s[i] : i \in DOMAIN s}

\* str.lower()
LowerChar(c) == IF c = "A" THEN "a" ELSE IF c = "B" THEN "b" ELSE c

Lower(s) == [i \in DOMAIN s |-> LowerChar(s[i])]

\* str.strip(): drop leading and trailing whitespace
RECURSIVE LStrip(_)
LStrip(s) == IF s # <<>> /\ Head(s) = " " THEN LStrip(Tail(s)) ELSE s

RECURSIVE RStrip(_)
RStrip(s) ==
    IF s # <<>> /\ s[Len(s)] = " " THEN RStrip(SubSeq(s, 1, Len(s) - 1)) ELSE s

Strip(s) == RStrip(LStrip(s))

\* re.sub(r'[^\w\s]', '', s): keep word characters and whitespace only
IsWordOrSpace(c) == c \in {"a", "b", "A", "B", " "}

RECURSIVE RemovePunctuation(_)
RemovePunctuation(s) ==
    IF s = <<>> THEN <<>>
    ELSE IF IsWordOrSpace(Head(s)) THEN <<Head(s)>> \o RemovePunctuation(Tail(s))
    ELSE RemovePunctuation(Tail(s))

(***************************************************************************)
(* difflib.SequenceMatcher(None, a, b).ratio(), no junk (both strings are  *)
(* far shorter than the 200 characters at which autojunk sets in).         *)
(***************************************************************************)
\* the blocks a[i..i+k-1] = b[j..j+k-1], k >= 1
MatchingBlocksAt(a, b) ==
    {m \in (1..Len(a)) \X (1..Len(b)) \X (1..Len(a)) :
        /\ m[1] + m[3] - 1 <= Len(a)
        /\ m[2] + m[3] - 1 <= Len(b)
        /\ SubSeq(a, m[1], m[1] + m[3] - 1) = SubSeq(b, m[2], m[2] + m[3] - 1)}

\* find_longest_match: the longest block; of those the one that starts
\* earliest in a; of those the one that starts earliest in b
FindLongestMatch(a, b) ==
    LET all == MatchingBlocksAt(a, b)
    IN  IF all = {} THEN <<1, 1, 0>>
        ELSE CHOOSE m \in all :
                \A o \in all :
                    \/ m[3] > o[3]
                    \/ m[3] = o[3] /\ m[1] < o[1]
                    \/ m[3] = o[3] /\ m[1] = o[1] /\ m[2] <= o[2]

\* get_matching_blocks: total size of the blocks found by matching the
\* longest block and then, recursively, the pieces to its left and right
RECURSIVE Matches(_, _)
Matches(a, b) ==
    IF a = <<>> \/ b = <<>> THEN 0
    ELSE LET m == FindLongestMatch(a, b)
         IN  IF m[3] = 0 THEN 0
             ELSE m[3]
                  + Matches(SubSeq(a, 1, m[1] - 1), SubSeq(b, 1, m[2] - 1))
                  + Matches(SubSeq(a, m[1] + m[3], Len(a)),
                            SubSeq(b, m[2] + m[3], Len(b)))

\* ratio(): 2.0 * matches / (len(a) + len(b)), and 1.0 for two empty strings
Ratio(a, b) ==
    IF Len(a) + Len(b) = 0 THEN 1000
    ELSE (2000 * Matches(a, b)) \div (Len(a) + Len(b))

(***************************************************************************)
(* The batch job's result for one manifest row (transcribe_and_compare).   *)
(* An outcome says what the environment does for the row: the audio file   *)
(* is missing, the engine raises, or the engine returns a raw text.        *)
(***************************************************************************)
AudioMissing == [kind |-> "missing", raw |-> <<>>]

EngineRaises == [kind |-> "raises", raw |-> <<>>]

Transcribed(raw) == [kind |-> "text", raw |-> raw]

\* "Comparison Logic": the score of a transcription against its target
BatchScore(transcribed_text, target_phrase) ==
    IF transcribed_text # <<>> /\ target_phrase # <<>>
    THEN Ratio(Strip(Lower(transcribed_text)), Strip(Lower(target_phrase)))
    ELSE 0

\* a result row that reports a missing audio file as an engine error
ResultRowMissingAsEngineError(row, outcome) ==
    LET transcribed_text ==
            IF outcome.kind = "text"
            THEN RemovePunctuation(Lower(outcome.raw))
            ELSE <<>>
    IN  [block |-> row.block,
         trial |-> row.trial,
         target_phrase |-> row.phrase,
         transcribed_text |-> transcribed_text,
         similarity_score |-> BatchScore(transcribed_text, row.phrase),
         error |-> IF outcome.kind = "text" THEN <<>>
                   ELSE <<"Error processing audio file">>,
         manual_correct |-> FALSE,
         manual_reviewed |-> FALSE,
         original_transcription |-> <<>>]

\* lines 89-127: the result record of one manifest row
ResultRow(row, outcome) ==
    LET transcribed_text ==
            IF outcome.kind = "text"
            THEN RemovePunctuation(Lower(outcome.raw))
            ELSE <<>>
        error_msg ==
            IF outcome.kind = "missing" THEN <<"Audio file not found">>
            ELSE IF outcome.kind = "raises" THEN <<"Error processing audio file">>
            ELSE <<>>
    IN  [block |-> row.block,
         trial |-> row.trial,
         target_phrase |-> row.phrase,
         transcribed_text |-> transcribed_text,
         similarity_score |-> BatchScore(transcribed_text, row.phrase),
         error |-> error_msg,
         manual_correct |-> FALSE,
         manual_reviewed |-> FALSE,
         original_transcription |-> <<>>]

\* the columns the batch job writes; the cells of the three review columns
\* of such a file do not exist (the placeholders above are never read)
BatchColumns ==
    {"block", "trial", "audio_filename", "target_phrase", "transcribed_text",
     "similarity_score", "error"}

ReviewColumns == {"manual_correct", "manual_reviewed", "original_transcription"}

\* the results file the batch job writes for a manifest and one outcome per row
BatchFile(manifest, outcomes) ==
    [columns |-> BatchColumns,
     rows |-> [i \in DOMAIN manifest |-> ResultRow(manifest[i], outcomes[i])]]

(***************************************************************************)
(* The results file and the data frame (load_data, save_data).             *)
(***************************************************************************)
\* the markers pd.read_csv reads as a missing value that the alphabet can
\* spell: the empty cell
NAStrings == {<<>>}

ReadText(cell) == IF cell \in NAStrings THEN NaN ELSE cell

\* DataFrame.to_csv writes a missing value as the empty cell
WriteText(value) == IF value = NaN THEN <<>> ELSE value

\* pd.read_csv of the columns the batch job writes
ReadRow(r) ==
    [block |-> r.block,
     trial |-> r.trial,
     target_phrase |-> ReadText(r.target_phrase),
     transcribed_text |-> ReadText(r.transcribed_text),
     similarity_score |-> r.similarity_score,
     error |-> ReadText(r.error)]

\* a load that sets the two flags to false whether the file has them or not
LoadRowResetsFlags(columns, r) ==
    LET read == ReadRow(r)
    IN  [block |-> read.block,
         trial |-> read.trial,
         target_phrase |-> read.target_phrase,
         transcribed_text |-> read.transcribed_text,
         similarity_score |-> read.similarity_score,
         error |-> read.error,
         manual_correct |-> FALSE,
         manual_reviewed |-> FALSE,
         original_transcription |->
            IF "original_transcription" \notin columns
            THEN read.transcribed_text
            ELSE ReadText(r.original_transcription)]

\* a load that takes the snapshot of transcribed_text on every load
LoadRowSnapshotsAgain(columns, r) ==
    LET read == ReadRow(r)
    IN  [block |-> read.block,
         trial |-> read.trial,
         target_phrase |-> read.target_phrase,
         transcribed_text |-> read.transcribed_text,
         similarity_score |-> read.similarity_score,
         error |-> read.error,
         manual_correct |->
            IF "manual_correct" \notin columns THEN FALSE ELSE r.manual_correct,
         manual_reviewed |->
            IF "manual_reviewed" \notin columns THEN FALSE ELSE r.manual_reviewed,
         original_transcription |-> read.transcribed_text]

\* load_data: read the file, then add the review columns it lacks
LoadRow(columns, r) ==
    LET read == ReadRow(r)
    IN  [block |-> read.block,
         trial |-> read.trial,
         target_phrase |-> read.target_phrase,
         transcribed_text |-> read.transcribed_text,
         similarity_score |-> read.similarity_score,
         error |-> read.error,
         manual_correct |->
            IF "manual_correct" \notin columns THEN FALSE ELSE r.manual_correct,
         manual_reviewed |->
            IF "manual_reviewed" \notin columns THEN FALSE ELSE r.manual_reviewed,
         original_transcription |->
            IF "original_transcription" \notin columns
            THEN read.transcribed_text
            ELSE ReadText(r.original_transcription)]

load_data(file) == [i \in DOMAIN file.rows |-> LoadRow(file.columns, file.rows[i])]

\* a results file that does not exist, and one of zero bytes
NoContent == [columns |-> {}, rows |-> <<>>]

\* pd.read_csv raises EmptyDataError on a file without a header line
EmptyDataError(file) == file.columns = {}

\* df.to_csv(path, index=False): every column of the frame, every row
WriteRow(d) ==
    [block |-> d.block,
     trial |-> d.trial,
     target_phrase |-> WriteText(d.target_phrase),
     transcribed_text |-> WriteText(d.transcribed_text),
     similarity_score |-> d.similarity_score,
     error |-> WriteText(d.error),
     manual_correct |-> d.manual_correct,
     manual_reviewed |-> d.manual_reviewed,
     original_transcription |-> WriteText(d.original_transcription)]

to_csv(df) ==
    [columns |-> BatchColumns \cup ReviewColumns,
     rows |-> [i \in DOMAIN df |-> WriteRow(df[i])]]

(***************************************************************************)
(* State of one review session and of the participant's results file.      *)
(***************************************************************************)
VARIABLES
    csv_file,           \* the results file at csv_path: [columns, rows]
    csv_writable,       \* whether a write to csv_path succeeds
    data,               \* st.session_state.data, the data frame
    current_trial_idx,  \* st.session_state.current_trial_idx, 0 if not set
    show_low_conf,      \* checkbox "Filter by Similarity Score"
    threshold,          \* slider "Confidence Threshold"
    hide_reviewed,      \* checkbox "Hide Reviewed Trials"
    sort_priority,      \* checkbox "Sort: Unreviewed First"
    filtered_indices,   \* filtered_indices of the last script run
    selected_index,     \* selected_index of the last script run, 0 if none
    view,               \* how the last script run ended: "ok", "empty", "error"
    stored_idx          \* current_trial_idx as the last script run found it

(***************************************************************************)
(* State of the other parts of the program: one run of the batch job, one  *)
(* resolution of an audio path, the idle watchdog, and the start-up check  *)
(* of the sessions' script threads.                                        *)
(***************************************************************************)
VARIABLES
    csv_exists,         \* whether the results file exists at output_csv_path
    job_env,            \* what the job finds: manifest, ffmpeg, whisper, disk
    job_pc,             \* where the job is: "start", "rows", "write", "returned"
    results,            \* the list `results` of the job
    engine_calls,       \* the manifest rows model.transcribe was called for
    job_returned        \* what the job returned: "True", "False", "none" while it runs

VARIABLES
    fs_paths,           \* the paths for which os.path.exists holds
    resolve_args,       \* the arguments of find_audio_path
    final_audio_path    \* its return value, None, or "unset" before the call

VARIABLES
    active_sessions,    \* len(rt._session_mgr.list_active_sessions())
    process_alive,      \* FALSE once SIGINT was sent to the process
    monitor_pc,         \* where monitor_sessions is
    monitor_timer,      \* what is left of the monitor's current sleep
    sessions,           \* the monitor's local `sessions`: the count it saw last
    since_check         \* time elapsed since the monitor's last check

VARIABLES
    script_pc,          \* per session: where its script thread is in lines 69-73
    thread_started,     \* per session: "monitor_thread_started" in session_state
    monitor_threads     \* the number of threads named "ShutdownMonitor"

ReviewVars ==
    <<csv_file, csv_writable, data, current_trial_idx, show_low_conf, threshold, hide_reviewed,
      sort_priority, filtered_indices, selected_index, view, stored_idx>>

BatchVars == <<csv_exists, job_env, job_pc, results, engine_calls, job_returned>>

ResolveVars == <<fs_paths, resolve_args, final_audio_path>>

WatchdogVars ==
    <<active_sessions, process_alive, monitor_pc, monitor_timer, sessions, since_check>>

StartupVars == <<script_pc, thread_started, monitor_threads>>

vars == <<ReviewVars, BatchVars, ResolveVars, WatchdogVars, StartupVars>>

\* what a review session leaves alone
OutsideReview == <<BatchVars, ResolveVars, WatchdogVars, StartupVars>>

\* the slider's initial value
DefaultThreshold == 1000

(***************************************************************************)
(* One script run from "Filter logic" to "Selection Logic".                *)
(***************************************************************************)
\* the threshold predicate without the override of the two review flags
MaskWithoutOverride(d, slc, thr, hide) ==
    /\ slc => d.similarity_score < thr
    /\ hide => ~d.manual_reviewed

\* a mask that lets a row pass if any active predicate holds
MaskAnyPredicate(d, slc, thr, hide) ==
    \/ ~slc /\ ~hide
    \/ slc /\ (d.similarity_score < thr \/ d.manual_correct \/ d.manual_reviewed)
    \/ hide /\ ~d.manual_reviewed

\* the mask of one row
Mask(d, slc, thr, hide) ==
    /\ slc => (d.similarity_score < thr \/ d.manual_correct \/ d.manual_reviewed)
    /\ hide => ~d.manual_reviewed

\* the key of the natural order whatever the toggle says
SortKeyNaturalOnly(d, sortp) == <<0, d.block, d.trial>>

\* the sort key of a row: sort_reviewed (only with the priority sort), block, trial
SortKey(d, sortp) ==
    <<IF sortp /\ d.manual_reviewed THEN 1 ELSE 0, d.block, d.trial>>

KeyLess(k, l) ==
    \/ k[1] < l[1]
    \/ k[1] = l[1] /\ k[2] < l[2]
    \/ k[1] = l[1] /\ k[2] = l[2] /\ k[3] < l[3]

\* DataFrame.sort_values on several columns is stable: rows with equal keys
\* keep the order of the frame.  Insert label i behind every label of the
\* sorted list whose key is not greater.
RECURSIVE InsertByKey(_, _, _, _)
InsertByKey(df, sorted, i, sortp) ==
    IF sorted = <<>> THEN <<i>>
    ELSE IF KeyLess(SortKey(df[i], sortp), SortKey(df[Head(sorted)], sortp))
    THEN <<i>> \o sorted
    ELSE <<Head(sorted)>> \o InsertByKey(df, Tail(sorted), i, sortp)

\* the labels of the rows that pass the mask, sorted; n is the last label
RECURSIVE SortValues(_, _, _, _)
SortValues(df, labels, n, sortp) ==
    IF n = 0 THEN <<>>
    ELSE IF n \in labels
    THEN InsertByKey(df, SortValues(df, labels, n - 1, sortp), n, sortp)
    ELSE SortValues(df, labels, n - 1, sortp)

FilteredIndices(df, slc, thr, hide, sortp) ==
    SortValues(df, {i \in DOMAIN df : Mask(df[i], slc, thr, hide)}, Len(df), sortp)

\* the selection logic without its persistence: every run selects the first
SelectionLogicAlwaysFirst(stored, queue) == queue[1]

\* a selection logic that keeps a stored selection that left the queue
SelectionLogicKeepsStored(stored, queue) ==
    IF stored = 0 THEN queue[1] ELSE stored

\* "Selection Logic with Persistence"
SelectionLogic(stored, queue) ==
    IF stored = 0 \/ stored \notin Range(queue) THEN queue[1] ELSE stored

\* list.index
IndexOf(queue, i) == CHOOSE p \in DOMAIN queue : queue[p] = i

\* the script run on the session state (df, the four controls, stored): it
\* stops at "No trials match the current filters" or renders the trial
ScriptRun(df, slc, thr, hide, sortp, stored) ==
    LET queue == FilteredIndices(df, slc, thr, hide, sortp)
    IN  /\ filtered_indices' = queue
        /\ stored_idx' = stored
        /\ IF queue = <<>>
           THEN /\ view' = "empty"
                /\ current_trial_idx' = stored
                /\ selected_index' = 0
           ELSE /\ view' = "ok"
                /\ current_trial_idx' = SelectionLogic(stored, queue)
                /\ selected_index' = SelectionLogic(stored, queue)

\* an exception leaves the callback: the script body is not run, the page
\* shows the exception
CallbackRaises ==
    /\ view' = "error"
    /\ UNCHANGED <<filtered_indices, current_trial_idx, selected_index, stored_idx>>

(***************************************************************************)
(* The sidebar controls.  They are rendered before the script can stop     *)
(* for an empty queue.                                                     *)
(***************************************************************************)
SetShowLowConf ==
    /\ view # "error"
    /\ show_low_conf' = ~show_low_conf
    \* the slider exists only while the checkbox is set, and starts at 1.0
    /\ threshold' = DefaultThreshold
    /\ ScriptRun(data, show_low_conf', threshold', hide_reviewed, sort_priority,
                 current_trial_idx)
    /\ UNCHANGED <<csv_file, csv_writable, data, hide_reviewed, sort_priority>>
    /\ UNCHANGED OutsideReview

SetThreshold ==
    /\ view # "error"
    /\ show_low_conf
    /\ \E t \in Thresholds \ {threshold} :
        /\ threshold' = t
        /\ ScriptRun(data, show_low_conf, t, hide_reviewed, sort_priority,
                     current_trial_idx)
    /\ UNCHANGED <<csv_file, csv_writable, data, show_low_conf, hide_reviewed,
                   sort_priority>>
    /\ UNCHANGED OutsideReview

SetHideReviewed ==
    /\ view # "error"
    /\ hide_reviewed' = ~hide_reviewed
    /\ ScriptRun(data, show_low_conf, threshold, hide_reviewed', sort_priority,
                 current_trial_idx)
    /\ UNCHANGED <<csv_file, csv_writable, data, show_low_conf, threshold,
                   sort_priority>>
    /\ UNCHANGED OutsideReview

SetSortPriority ==
    /\ view # "error"
    /\ sort_priority' = ~sort_priority
    /\ ScriptRun(data, show_low_conf, threshold, hide_reviewed, sort_priority',
                 current_trial_idx)
    /\ UNCHANGED <<csv_file, csv_writable, data, show_low_conf, threshold,
                   hide_reviewed>>
    /\ UNCHANGED OutsideReview

(***************************************************************************)
(* Navigation: the two buttons and the "Select Trial" box.                 *)
(***************************************************************************)
Controls ==
    <<csv_writable, show_low_conf, threshold, hide_reviewed, sort_priority>>

Navigate(target) ==
    /\ ScriptRun(data, show_low_conf, threshold, hide_reviewed, sort_priority,
                 target)
    /\ UNCHANGED <<csv_file, data, Controls>>

\* disabled when curr_pos == 0
Previous ==
    /\ view = "ok"
    /\ LET curr_pos == IndexOf(filtered_indices, current_trial_idx)
       IN  /\ curr_pos # 1
           /\ Navigate(filtered_indices[curr_pos - 1])
    /\ UNCHANGED OutsideReview

\* a Next button that goes from the last trial of the queue to the first
NextTrialWrapsAround ==
    /\ view = "ok"
    /\ LET curr_pos == IndexOf(filtered_indices, current_trial_idx)
       IN  Navigate(filtered_indices[(curr_pos % Len(filtered_indices)) + 1])
    /\ UNCHANGED OutsideReview

\* disabled when curr_pos == len(filtered_indices) - 1
NextTrial ==
    /\ view = "ok"
    /\ LET curr_pos == IndexOf(filtered_indices, current_trial_idx)
       IN  /\ curr_pos # Len(filtered_indices)
           /\ Navigate(filtered_indices[curr_pos + 1])
    /\ UNCHANGED OutsideReview

\* on_selectbox_change: the reviewer picks another option of the box
Jump ==
    /\ view = "ok"
    /\ \E temp_selectbox \in Range(filtered_indices) \ {current_trial_idx} :
        Navigate(temp_selectbox)
    /\ UNCHANGED OutsideReview

(***************************************************************************)
(* The editing callbacks.  A callback runs on the data frame in the        *)
(* session state with the selected_index, row and filtered_indices of the  *)
(* script run that rendered its widget; the script runs again after it.    *)
(***************************************************************************)
\* persist-then-update: the table goes to csv_path as it was before the edit
save_data_before_update(df) ==
    /\ csv_writable
    /\ csv_file' = to_csv(data)

\* save_data: the full table goes to csv_path
save_data(df) ==
    /\ csv_writable
    /\ csv_file' = to_csv(df)

\* a write that fails without a word: the exception is swallowed, the script
\* runs on as after a save
WriteFailsSilently ==
    /\ ~csv_writable
    /\ UNCHANGED csv_file
    /\ ScriptRun(data', show_low_conf, threshold, hide_reviewed, sort_priority,
                 current_trial_idx)

\* df.to_csv raises and the exception leaves the callback.  to_csv opens
\* csv_path with mode "w" and then writes: when open raises (the file is
\* locked or read-only) nothing is written, when a write raises after it
\* (the disk is full, the share is gone) the file was truncated by open
WriteFails ==
    /\ ~csv_writable
    /\ \/ UNCHANGED csv_file
       \/ csv_file' = NoContent
    /\ CallbackRaises

\* the value the text input shows: "" for a missing transcription
CurrentText(row) ==
    IF row.transcribed_text = NaN THEN <<>> ELSE row.transcribed_text

\* "if new_text and target" holds for a missing target (NaN is a true float),
\* and target.lower() then raises AttributeError
LowerOfTargetRaises(new_text, target) == new_text # <<>> /\ target = NaN

\* the similarity of the texts as typed, neither lower-cased nor stripped
NewScoreNotNormalized(new_text, target) ==
    IF new_text # <<>> /\ target # <<>> THEN Ratio(new_text, target) ELSE 0

\* "Calculate new similarity"
NewScore(new_text, target) ==
    IF new_text # <<>> /\ target # <<>>
    THEN Ratio(Strip(Lower(new_text)), Strip(Lower(target)))
    ELSE 0

EditedFrame(df, idx, new_text) ==
    [df EXCEPT ![idx].transcribed_text = new_text,
               ![idx].similarity_score = NewScore(new_text, df[idx].target_phrase)]

update_transcription ==
    /\ view = "ok"
    /\ \E new_text \in EditTexts :
        /\ new_text # CurrentText(data[selected_index])
        /\ IF LowerOfTargetRaises(new_text, data[selected_index].target_phrase)
           THEN /\ CallbackRaises
                /\ UNCHANGED <<data, csv_file>>
           ELSE /\ data' = EditedFrame(data, selected_index, new_text)
                /\ \/ /\ save_data(data')
                      /\ ScriptRun(data', show_low_conf, threshold, hide_reviewed,
                                   sort_priority, current_trial_idx)
                   \/ WriteFails
    /\ UNCHANGED Controls
    /\ UNCHANGED OutsideReview

\* a toggle of "Mark as Correct" that marks the trial reviewed as well
update_correct_marks_reviewed ==
    /\ view = "ok"
    /\ data' = [data EXCEPT ![selected_index].manual_correct =
                                ~data[selected_index].manual_correct,
                            ![selected_index].manual_reviewed =
                                ~data[selected_index].manual_correct]
    /\ \/ /\ save_data(data')
          /\ ScriptRun(data', show_low_conf, threshold, hide_reviewed,
                       sort_priority, current_trial_idx)
       \/ WriteFails
    /\ UNCHANGED Controls
    /\ UNCHANGED OutsideReview

update_correct ==
    /\ view = "ok"
    /\ data' = [data EXCEPT ![selected_index].manual_correct =
                                ~data[selected_index].manual_correct]
    /\ \/ /\ save_data(data')
          /\ ScriptRun(data', show_low_conf, threshold, hide_reviewed,
                       sort_priority, current_trial_idx)
       \/ WriteFails
    /\ UNCHANGED Controls
    /\ UNCHANGED OutsideReview

\* the auto-advance that does not look at manual_reviewed: the next trial
AutoAdvanceNoSkip(df, queue, idx, current) ==
    LET curr_idx_in_queue == CHOOSE p \in DOMAIN queue : queue[p] = idx
    IN  IF curr_idx_in_queue = Len(queue) THEN current
        ELSE queue[curr_idx_in_queue + 1]

\* an auto-advance that goes on from the start of the queue when no trial
\* after idx is unreviewed
AutoAdvanceWrapsAround(df, queue, idx, current) ==
    LET unreviewed == {i \in DOMAIN queue : queue[i] # idx /\ ~df[queue[i]].manual_reviewed}
        later == {i \in unreviewed : i > IndexOf(queue, idx)}
    IN  IF unreviewed = {} THEN current
        ELSE IF later = {}
        THEN queue[CHOOSE i \in unreviewed : \A j \in unreviewed : i <= j]
        ELSE queue[CHOOSE i \in later : \A j \in later : i <= j]

\* an auto-advance that looks for the next unreviewed trial in the whole
\* table instead of the queue
AutoAdvanceWholeTable(df, queue, idx, current) ==
    LET unreviewed == {i \in DOMAIN df : i # idx /\ ~df[i].manual_reviewed}
    IN  IF unreviewed = {} THEN current
        ELSE CHOOSE i \in unreviewed : \A j \in unreviewed : i <= j

\* "Auto-advance logic": the first trial after idx in the queue that is not
\* reviewed in df, or the selection as it is
AutoAdvance(df, queue, idx, current) ==
    LET curr_idx_in_queue == IndexOf(queue, idx)
        unreviewed == {i \in (curr_idx_in_queue + 1)..Len(queue) :
                          ~df[queue[i]].manual_reviewed}
    IN  IF unreviewed = {} THEN current
        ELSE queue[CHOOSE i \in unreviewed : \A j \in unreviewed : i <= j]

update_reviewed ==
    /\ view = "ok"
    /\ LET new_val == ~data[selected_index].manual_reviewed
       IN  /\ data' = [data EXCEPT ![selected_index].manual_reviewed = new_val]
           /\ \/ /\ save_data(data')
                 /\ ScriptRun(data', show_low_conf, threshold, hide_reviewed,
                              sort_priority,
                              IF new_val
                              THEN AutoAdvance(data', filtered_indices,
                                               selected_index, current_trial_idx)
                              ELSE current_trial_idx)
              \/ WriteFails
    /\ UNCHANGED Controls
    /\ UNCHANGED OutsideReview

(***************************************************************************)
(* A new session (the page is opened or reloaded): the session state is    *)
(* empty, the controls have their initial values, the table is loaded.     *)
(***************************************************************************)
NewSession ==
    /\ show_low_conf' = TRUE
    /\ threshold' = DefaultThreshold
    /\ hide_reviewed' = FALSE
    /\ sort_priority' = TRUE
    /\ IF EmptyDataError(csv_file)
       \* load_data has no handler: the script stops with the exception
       \* before 'data' is set in the session state
       THEN /\ data' = <<>>
            /\ view' = "error"
            /\ filtered_indices' = <<>>
            /\ current_trial_idx' = 0
            /\ selected_index' = 0
            /\ stored_idx' = 0
       ELSE /\ data' = load_data(csv_file)
            /\ ScriptRun(data', TRUE, DefaultThreshold, FALSE, TRUE, 0)
    /\ UNCHANGED <<csv_file, csv_writable>>
    /\ UNCHANGED OutsideReview

(***************************************************************************)
(* The environment: a results file that cannot be written (read-only, or   *)
(* held open by another program) becomes writable.                         *)
(***************************************************************************)
UnlockFile ==
    /\ ~csv_writable
    /\ csv_writable' = TRUE
    /\ UNCHANGED <<csv_file, data, current_trial_idx, show_low_conf, threshold,
                   hide_reviewed, sort_priority, filtered_indices, selected_index,
                   view, stored_idx>>
    /\ UNCHANGED OutsideReview

(***************************************************************************)
(* The batch job, transcribe_and_compare, as a process of its own.  What   *)
(* it finds is fixed when it starts (job_env): whether the manifest        *)
(* exists and can be read, whether ffmpeg is on the path, whether the      *)
(* whisper model loads, the manifest rows, what happens to each row's      *)
(* audio file, and what the disk does with the write.                      *)
(***************************************************************************)
\* the results file of an earlier run of the job
EarlierFile == BatchFile(<<[phrase |-> <<"a">>, block |-> 1, trial |-> 1]>>,
                         <<Transcribed(<<"a">>)>>)

\* the outcomes of one manifest row
RowOutcomes == {AudioMissing, EngineRaises, Transcribed(<<"A", "b", ".">>)}

\* the manifest with n rows: block 1, trials 1..n
ManifestOf(n) ==
    [i \in 1..n |-> [phrase |-> <<"a", "b">>, block |-> 1, trial |-> i]]

\* what open(output_csv_path, 'w') and the writer do: the write succeeds, the
\* open raises, or the writer raises after the open has truncated the file
DiskOutcomes == {"written", "open_raises", "write_raises"}

JobEnvs ==
    [manifest_exists : BOOLEAN,
     manifest_readable : BOOLEAN,
     ffmpeg : BOOLEAN,
     whisper : BOOLEAN,
     manifest : {ManifestOf(n) : n \in 0..MaxManifestRows},
     outcomes : [1..MaxManifestRows -> RowOutcomes],
     disk : DiskOutcomes]

\* the job returns value
Return(value) ==
    /\ job_pc' = "returned"
    /\ job_returned' = value

\* lines 29-78: the manifest, ffmpeg, the model, reading the manifest
JobStart ==
    /\ job_pc = "start"
    /\ IF ~job_env.manifest_exists THEN Return("False")
       ELSE IF ~job_env.ffmpeg THEN Return("False")
       ELSE IF ~job_env.whisper THEN Return("False")
       ELSE IF ~job_env.manifest_readable THEN Return("False")
       ELSE job_pc' = "rows" /\ UNCHANGED job_returned
    /\ results' = <<>>
    /\ UNCHANGED <<csv_file, csv_exists, job_env, engine_calls>>
    /\ UNCHANGED <<csv_writable, data, current_trial_idx, show_low_conf, threshold,
                   hide_reviewed, sort_priority, filtered_indices, selected_index,
                   view, stored_idx>>
    /\ UNCHANGED <<ResolveVars, WatchdogVars, StartupVars>>

\* a loop that ends at the first row that fails
ProcessRowAbortsOnFailure ==
    /\ job_pc = "rows"
    /\ Len(results) < Len(job_env.manifest)
    /\ LET i == Len(results) + 1
           outcome == job_env.outcomes[i]
       IN  /\ engine_calls' =
                IF outcome.kind = "missing" THEN engine_calls
                ELSE engine_calls \cup {i}
           /\ results' = Append(results, ResultRow(job_env.manifest[i], outcome))
           /\ IF outcome.kind = "text" THEN UNCHANGED <<job_pc, job_returned>>
              ELSE Return("False")
    /\ UNCHANGED <<csv_file, csv_exists, job_env>>
    /\ UNCHANGED <<csv_writable, data, current_trial_idx, show_low_conf, threshold,
                   hide_reviewed, sort_priority, filtered_indices, selected_index,
                   view, stored_idx>>
    /\ UNCHANGED <<ResolveVars, WatchdogVars, StartupVars>>

\* lines 80-127: one pass of the loop over the manifest rows
ProcessRow ==
    /\ job_pc = "rows"
    /\ Len(results) < Len(job_env.manifest)
    /\ LET i == Len(results) + 1
           outcome == job_env.outcomes[i]
       IN  /\ engine_calls' =
                IF outcome.kind = "missing" THEN engine_calls
                ELSE engine_calls \cup {i}
           /\ results' = Append(results, ResultRow(job_env.manifest[i], outcome))
    /\ UNCHANGED <<csv_file, csv_exists, job_env, job_pc, job_returned>>
    /\ UNCHANGED <<csv_writable, data, current_trial_idx, show_low_conf, threshold,
                   hide_reviewed, sort_priority, filtered_indices, selected_index,
                   view, stored_idx>>
    /\ UNCHANGED <<ResolveVars, WatchdogVars, StartupVars>>

\* a write that does not ask whether there are results
WriteResultsAlways ==
    /\ job_pc = "rows"
    /\ Len(results) = Len(job_env.manifest)
    /\ IF job_env.disk = "written"
       THEN /\ csv_file' = [columns |-> BatchColumns, rows |-> results]
            /\ csv_exists' = TRUE
            /\ Return(IF results # <<>> THEN "True" ELSE "False")
       ELSE IF job_env.disk = "write_raises"
       THEN /\ csv_file' = NoContent
            /\ csv_exists' = TRUE
            /\ Return("False")
       ELSE /\ UNCHANGED <<csv_file, csv_exists>>
            /\ Return("False")
    /\ UNCHANGED <<job_env, results, engine_calls>>
    /\ UNCHANGED <<csv_writable, data, current_trial_idx, show_low_conf, threshold,
                   hide_reviewed, sort_priority, filtered_indices, selected_index,
                   view, stored_idx>>
    /\ UNCHANGED <<ResolveVars, WatchdogVars, StartupVars>>

\* lines 133-148: "Write results"
WriteResults ==
    /\ job_pc = "rows"
    /\ Len(results) = Len(job_env.manifest)
    /\ IF results = <<>>
       THEN /\ UNCHANGED <<csv_file, csv_exists>>
            /\ Return("False")
       ELSE IF job_env.disk = "written"
       THEN /\ csv_file' = [columns |-> BatchColumns, rows |-> results]
            /\ csv_exists' = TRUE
            /\ Return("True")
       ELSE IF job_env.disk = "write_raises"
       THEN /\ csv_file' = NoContent
            /\ csv_exists' = TRUE
            /\ Return("False")
       ELSE /\ UNCHANGED <<csv_file, csv_exists>>
            /\ Return("False")
    /\ UNCHANGED <<job_env, results, engine_calls>>
    /\ UNCHANGED <<csv_writable, data, current_trial_idx, show_low_conf, threshold,
                   hide_reviewed, sort_priority, filtered_indices, selected_index,
                   view, stored_idx>>
    /\ UNCHANGED <<ResolveVars, WatchdogVars, StartupVars>>

\* no batch job runs: the job that wrote the results file has returned
BatchIdle ==
    /\ csv_exists = TRUE
    /\ job_env = [manifest_exists |-> TRUE, manifest_readable |-> TRUE,
                  ffmpeg |-> TRUE, whisper |-> TRUE, manifest |-> <<>>,
                  outcomes |-> [i \in 1..MaxManifestRows |-> AudioMissing],
                  disk |-> "written"]
    /\ job_pc = "returned"
    /\ results = <<>>
    /\ engine_calls = {}
    /\ job_returned = "True"

\* no review session is open
ReviewIdle ==
    /\ csv_writable = TRUE
    /\ data = <<>>
    /\ current_trial_idx = 0
    /\ show_low_conf = TRUE
    /\ threshold = DefaultThreshold
    /\ hide_reviewed = FALSE
    /\ sort_priority = TRUE
    /\ filtered_indices = <<>>
    /\ selected_index = 0
    /\ view = "empty"
    /\ stored_idx = 0

(***************************************************************************)
(* find_audio_path.  A path is a sequence of names and separators, so      *)
(* "data/1/t.wav" is <<"data", "/", "1", "/", "t.wav">>; fs_paths is the   *)
(* set of paths for which os.path.exists holds.                            *)
(***************************************************************************)
\* filename.replace('\\', '/')
NormalizeSeparators(filename) ==
    [i \in DOMAIN filename |-> IF filename[i] = "\\" THEN "/" ELSE filename[i]]

\* str.startswith
StartsWith(s, prefix) ==
    Len(s) >= Len(prefix) /\ SubSeq(s, 1, Len(prefix)) = prefix

\* os.path.join of two parts: an absolute second part replaces the first
Join(a, b) ==
    IF b # <<>> /\ Head(b) = "/" THEN b
    ELSE IF a = <<>> \/ a[Len(a)] = "/" THEN a \o b
    ELSE a \o <<"/">> \o b

\* base_dir.rstrip('/')
RECURSIVE RStripSlash(_)
RStripSlash(s) ==
    IF s # <<>> /\ s[Len(s)] = "/" THEN RStripSlash(SubSeq(s, 1, Len(s) - 1)) ELSE s

\* os.path.dirname: what is before the last separator, without the
\* separators it ends with (unless it is the root)
Dirname(path) ==
    LET seps == {i \in DOMAIN path : path[i] = "/"}
    IN  IF seps = {} THEN <<>>
        ELSE LET last == CHOOSE i \in seps : \A j \in seps : j <= i
                 head == SubSeq(path, 1, last)
             IN  IF RStripSlash(head) = <<>> THEN head ELSE RStripSlash(head)

\* the candidates with the participant's directory tried before the path as given
CandidatesParticipantFirst(base_dir, pid, filename) ==
    LET f == NormalizeSeparators(filename)
        prefix == <<"data", "/", pid, "/">>
    IN  <<Join(Join(base_dir, <<pid>>), f), f>>
        \o (IF StartsWith(f, prefix)
            THEN <<Join(Join(base_dir, <<pid>>), SubSeq(f, Len(prefix) + 1, Len(f)))>>
            ELSE <<>>)
        \o (IF /\ StartsWith(f, <<"data", "/">>)
               /\ RStripSlash(base_dir) # <<>>
               /\ RStripSlash(base_dir)[Len(RStripSlash(base_dir))] = "data"
            THEN <<Join(Dirname(RStripSlash(base_dir)), f)>>
            ELSE <<>>)

\* the list `candidates`
Candidates(base_dir, pid, filename) ==
    LET f == NormalizeSeparators(filename)
        prefix == <<"data", "/", pid, "/">>
    IN  <<f, Join(Join(base_dir, <<pid>>), f)>>
        \o (IF StartsWith(f, prefix)
            THEN <<Join(Join(base_dir, <<pid>>), SubSeq(f, Len(prefix) + 1, Len(f)))>>
            ELSE <<>>)
        \o (IF /\ StartsWith(f, <<"data", "/">>)
               /\ RStripSlash(base_dir) # <<>>
               /\ RStripSlash(base_dir)[Len(RStripSlash(base_dir))] = "data"
            THEN <<Join(Dirname(RStripSlash(base_dir)), f)>>
            ELSE <<>>)

\* "Check all candidates": the first one that exists, or None
find_audio_path(base_dir, pid, filename) ==
    LET candidates == Candidates(base_dir, pid, filename)
        existing == {i \in DOMAIN candidates : candidates[i] \in fs_paths}
    IN  IF existing = {} THEN [state |-> "None", path |-> <<>>]
        ELSE [state |-> "found",
              path |-> candidates[CHOOSE i \in existing : \A j \in existing : i <= j]]

\* data roots the session adopts (possible_dirs)
DataDirs ==
    {<<"data">>, <<"..", "/", "data">>, <<"..", "/", "Adp1", "/", "data">>,
     <<"..", "/", "ADP1", "/", "data">>}

\* the audio_filename of a record, as the experiment wrote it
AudioFilenames ==
    {<<"audio", "/", "t.wav">>,
     <<"data", "/", "1", "/", "audio", "/", "t.wav">>,
     <<"data", "\\", "1", "\\", "audio", "\\", "t.wav">>,
     <<"data", "/", "2", "/", "t.wav">>,
     <<"/", "rec", "/", "t.wav">>}

\* the Audio Player calls find_audio_path for the selected record
ResolveAudio ==
    /\ final_audio_path.state = "unset"
    /\ final_audio_path' = find_audio_path(resolve_args.base_dir, resolve_args.pid,
                                           resolve_args.filename)
    /\ UNCHANGED <<fs_paths, resolve_args>>
    /\ UNCHANGED <<ReviewVars, BatchVars, WatchdogVars, StartupVars>>

\* the files change on disk: one of the candidate paths appears or disappears
\* before the next record is played
FilesChange ==
    /\ final_audio_path.state # "unset"
    /\ \E c \in Range(Candidates(resolve_args.base_dir, resolve_args.pid,
                                 resolve_args.filename)) :
        fs_paths' = IF c \in fs_paths THEN fs_paths \ {c} ELSE fs_paths \cup {c}
    /\ final_audio_path' = [state |-> "unset", path |-> <<>>]
    /\ UNCHANGED resolve_args
    /\ UNCHANGED <<ReviewVars, BatchVars, WatchdogVars, StartupVars>>

\* no audio is looked for
ResolveIdle ==
    /\ fs_paths = {}
    /\ resolve_args = [base_dir |-> <<"data">>, pid |-> "1",
                       filename |-> <<"audio", "/", "t.wav">>]
    /\ final_audio_path = [state |-> "unset", path |-> <<>>]

(***************************************************************************)
(* The idle watchdog, monitor_sessions, in its thread.  Time is in         *)
(* seconds; it passes in steps of TimeSteps, and a thread that sleeps      *)
(* goes on when its timer has run out.  Client sessions connect and        *)
(* disconnect at any time.                                                 *)
(***************************************************************************)
\* time.sleep(10) before the loop
StartupSleep == 10

\* time.sleep(15) between the two checks
GracePeriod == 15

\* time.sleep(10) at the end of each pass of the loop
LoopSleep == 10

Min(a, b) == IF a < b THEN a ELSE b

Max(a, b) == IF a < b THEN b ELSE a

\* the monitor's local `sessions` before its first check
NotChecked == 0 - 1

WatchdogFrame == UNCHANGED <<ReviewVars, BatchVars, ResolveVars, StartupVars>>

\* a browser tab connects
Connect ==
    /\ process_alive
    /\ active_sessions < MaxSessions
    /\ active_sessions' = active_sessions + 1
    /\ UNCHANGED <<process_alive, monitor_pc, monitor_timer, sessions, since_check>>
    /\ WatchdogFrame

\* a browser tab is closed
Disconnect ==
    /\ process_alive
    /\ active_sessions > 0
    /\ active_sessions' = active_sessions - 1
    /\ UNCHANGED <<process_alive, monitor_pc, monitor_timer, sessions, since_check>>
    /\ WatchdogFrame

\* time passes
Tick ==
    /\ process_alive
    /\ \E d \in TimeSteps :
        /\ monitor_timer' = Max(0, monitor_timer - d)
        /\ since_check' = Min(GracePeriod, since_check + d)
    /\ UNCHANGED <<active_sessions, process_alive, monitor_pc, sessions>>
    /\ WatchdogFrame

\* a first check that sends SIGINT as soon as it sees no session
FirstCheckKills ==
    /\ process_alive
    /\ monitor_pc \in {"startup_sleep", "loop_sleep"}
    /\ monitor_timer = 0
    /\ sessions' = active_sessions
    /\ since_check' = 0
    /\ process_alive' = (active_sessions # 0)
    /\ monitor_pc' = "loop_sleep"
    /\ monitor_timer' = LoopSleep
    /\ UNCHANGED active_sessions
    /\ WatchdogFrame

\* the first list_active_sessions() of a pass, after a sleep of the loop
FirstCheck ==
    /\ process_alive
    /\ monitor_pc \in {"startup_sleep", "loop_sleep"}
    /\ monitor_timer = 0
    /\ sessions' = active_sessions
    /\ since_check' = 0
    /\ IF active_sessions = 0
       THEN monitor_pc' = "grace_sleep" /\ monitor_timer' = GracePeriod
       ELSE monitor_pc' = "loop_sleep" /\ monitor_timer' = LoopSleep
    /\ UNCHANGED <<active_sessions, process_alive>>
    /\ WatchdogFrame

\* the second list_active_sessions(), after the grace period, and os.kill
SecondCheck ==
    /\ process_alive
    /\ monitor_pc = "grace_sleep"
    /\ monitor_timer = 0
    /\ sessions' = active_sessions
    /\ since_check' = 0
    /\ process_alive' = (active_sessions # 0)
    /\ monitor_pc' = "loop_sleep"
    /\ monitor_timer' = LoopSleep
    /\ UNCHANGED active_sessions
    /\ WatchdogFrame

\* the watchdog has just been started
WatchdogIdle ==
    /\ active_sessions = 1
    /\ process_alive = TRUE
    /\ monitor_pc = "startup_sleep"
    /\ monitor_timer = StartupSleep
    /\ sessions = NotChecked
    /\ since_check = 0

(***************************************************************************)
(* The start-up check of lines 69-73.  Each client session runs the        *)
(* script in a thread of its own; between two statements of one thread     *)
(* the statements of another can run.                                      *)
(***************************************************************************)
ScriptSessions == 1..MaxSessions

StartupFrame == UNCHANGED <<ReviewVars, BatchVars, ResolveVars, WatchdogVars>>

\* a session's script starts a run (a widget event, or the first run)
Rerun(s) ==
    /\ script_pc[s] = "idle"
    /\ script_pc' = [script_pc EXCEPT ![s] = "line69"]
    /\ UNCHANGED <<thread_started, monitor_threads>>
    /\ StartupFrame

\* the tab is reloaded: the session state is a new, empty one
Reload(s) ==
    /\ script_pc[s] = "idle"
    /\ thread_started[s]
    /\ thread_started' = [thread_started EXCEPT ![s] = FALSE]
    /\ script_pc' = [script_pc EXCEPT ![s] = "line69"]
    /\ UNCHANGED monitor_threads
    /\ StartupFrame

\* if "monitor_thread_started" not in st.session_state
CheckStartedFlag(s) ==
    /\ script_pc[s] = "line69"
    /\ script_pc' = [script_pc EXCEPT ![s] =
                        IF thread_started[s] THEN "idle" ELSE "line71"]
    /\ UNCHANGED <<thread_started, monitor_threads>>
    /\ StartupFrame

\* if not any(t.name == "ShutdownMonitor" for t in threading.enumerate())
EnumerateThreads(s) ==
    /\ script_pc[s] = "line71"
    /\ script_pc' = [script_pc EXCEPT ![s] =
                        IF monitor_threads = 0 THEN "line72" ELSE "line73"]
    /\ UNCHANGED <<thread_started, monitor_threads>>
    /\ StartupFrame

\* threading.Thread(target=monitor_sessions, name="ShutdownMonitor", ...).start()
StartMonitor(s) ==
    /\ script_pc[s] = "line72"
    /\ monitor_threads' = monitor_threads + 1
    /\ script_pc' = [script_pc EXCEPT ![s] = "line73"]
    /\ UNCHANGED thread_started
    /\ StartupFrame

\* st.session_state.monitor_thread_started = True
SetStartedFlag(s) ==
    /\ script_pc[s] = "line73"
    /\ thread_started' = [thread_started EXCEPT ![s] = TRUE]
    /\ script_pc' = [script_pc EXCEPT ![s] = "idle"]
    /\ UNCHANGED monitor_threads
    /\ StartupFrame

\* every session has run the start-up check and is between two runs
StartupIdle ==
    /\ script_pc = [s \in ScriptSessions |-> "idle"]
    /\ thread_started = [s \in ScriptSessions |-> TRUE]
    /\ monitor_threads = 1

(***************************************************************************)
(* The participant's manifest and the results files a session starts from. *)
(***************************************************************************)
\* target phrases and the engine's raw texts, row by row
Phrase(i) ==
    IF i % 3 = 1 THEN <<"a", "b">>
    ELSE IF i % 3 = 2 THEN <<>>
    ELSE <<"A", " ", "b", " ">>

RawText(i) ==
    IF i % 3 = 1 THEN <<"A", "B", ".">>
    ELSE IF i % 3 = 2 THEN <<"a">>
    ELSE <<"b", ".">>

\* the rows come in descending (block, trial) order
Manifest ==
    [i \in 1..NumTrials |->
        [phrase |-> Phrase(i),
         block |-> (NumTrials - i) \div 2 + 1,
         trial |-> ((NumTrials - i) % 2) + 1]]

\* the engine transcribes every audio file
SessionOutcomes == [i \in 1..NumTrials |-> Transcribed(RawText(i))]

(***************************************************************************)
(* The "Re-run Transcription" button of the sidebar.  The script calls     *)
(* transcribe_and_compare for the selected participant; on success it      *)
(* calls st.rerun(), and the script starts again with 'data' in the        *)
(* session state and current_pid equal to the selected participant, so     *)
(* "Load Data" is skipped.  When the job fails the script goes on.         *)
(***************************************************************************)
RerunTranscription ==
    /\ view # "error"
    /\ \/ /\ csv_writable
          /\ csv_file' = BatchFile(Manifest, SessionOutcomes)
       \* the job returns False before it writes (manifest, ffmpeg, whisper)
       \/ UNCHANGED csv_file
       \* open raises, or a write raises after open truncated the file
       \/ /\ ~csv_writable
          /\ csv_file' \in {csv_file, NoContent}
    /\ ScriptRun(data, show_low_conf, threshold, hide_reviewed, sort_priority,
                 current_trial_idx)
    /\ UNCHANGED <<data, Controls>>
    /\ UNCHANGED OutsideReview

Init ==
    /\ csv_file = BatchFile(Manifest, SessionOutcomes)
    /\ csv_writable \in BOOLEAN
    /\ data = load_data(csv_file)
    /\ show_low_conf = TRUE
    /\ threshold = DefaultThreshold
    /\ hide_reviewed = FALSE
    /\ sort_priority = TRUE
    /\ stored_idx = 0
    /\ filtered_indices =
        FilteredIndices(data, TRUE, DefaultThreshold, FALSE, TRUE)
    /\ view = IF filtered_indices = <<>> THEN "empty" ELSE "ok"
    /\ current_trial_idx =
        IF filtered_indices = <<>> THEN 0 ELSE filtered_indices[1]
    /\ selected_index = current_trial_idx
    /\ BatchIdle
    /\ ResolveIdle
    /\ WatchdogIdle
    /\ StartupIdle

Next ==
    \/ SetShowLowConf
    \/ SetThreshold
    \/ SetHideReviewed
    \/ SetSortPriority
    \/ Previous
    \/ NextTrial
    \/ Jump
    \/ update_transcription
    \/ update_correct
    \/ update_reviewed
    \/ NewSession
    \/ RerunTranscription
    \/ UnlockFile

Spec == Init /\ [][Next]_vars

(***************************************************************************)
(* One run of the batch job, over every environment of JobEnvs and with    *)
(* or without a results file of an earlier run.                            *)
(***************************************************************************)
BatchInit ==
    /\ job_env \in JobEnvs
    /\ csv_exists \in BOOLEAN
    /\ csv_file = IF csv_exists THEN EarlierFile ELSE NoContent
    /\ job_pc = "start"
    /\ results = <<>>
    /\ engine_calls = {}
    /\ job_returned = "none"
    /\ ReviewIdle
    /\ ResolveIdle
    /\ WatchdogIdle
    /\ StartupIdle

BatchNext ==
    \/ JobStart
    \/ ProcessRow
    \/ WriteResults

BatchSpec == BatchInit /\ [][BatchNext]_vars

(***************************************************************************)
(* The Audio Player resolving the audio of a record, over every data root, *)
(* filename and set of existing candidate paths.                           *)
(***************************************************************************)
ResolveInit ==
    /\ resolve_args \in [base_dir : DataDirs, pid : {"1"}, filename : AudioFilenames]
    /\ fs_paths \in SUBSET Range(Candidates(resolve_args.base_dir, resolve_args.pid,
                                            resolve_args.filename))
    /\ final_audio_path = [state |-> "unset", path |-> <<>>]
    /\ csv_file = EarlierFile
    /\ ReviewIdle
    /\ BatchIdle
    /\ WatchdogIdle
    /\ StartupIdle

ResolveNext ==
    \/ ResolveAudio
    \/ FilesChange

ResolveSpec == ResolveInit /\ [][ResolveNext]_vars

(***************************************************************************)
(* The watchdog thread from its start.  Time passes, and the thread runs   *)
(* when it does not sleep.                                                 *)
(***************************************************************************)
WatchdogInit ==
    /\ active_sessions \in 0..MaxSessions
    /\ process_alive = TRUE
    /\ monitor_pc = "startup_sleep"
    /\ monitor_timer = StartupSleep
    /\ sessions = NotChecked
    /\ since_check = 0
    /\ csv_file = EarlierFile
    /\ ReviewIdle
    /\ BatchIdle
    /\ ResolveIdle
    /\ StartupIdle

WatchdogNext ==
    \/ Connect
    \/ Disconnect
    \/ Tick
    \/ FirstCheck
    \/ SecondCheck

WatchdogSpec ==
    /\ WatchdogInit
    /\ [][WatchdogNext]_vars
    /\ WF_vars(Tick)
    /\ WF_vars(FirstCheck)
    /\ WF_vars(SecondCheck)

(***************************************************************************)
(* The script threads of the sessions from the start of the server: no     *)
(* session has run the script, no watchdog thread exists.                  *)
(***************************************************************************)
StartupInit ==
    /\ script_pc = [s \in ScriptSessions |-> "idle"]
    /\ thread_started = [s \in ScriptSessions |-> FALSE]
    /\ monitor_threads = 0
    /\ csv_file = EarlierFile
    /\ ReviewIdle
    /\ BatchIdle
    /\ ResolveIdle
    /\ WatchdogIdle

StartupNext ==
    \E s \in ScriptSessions :
        \/ Rerun(s)
        \/ Reload(s)
        \/ CheckStartedFlag(s)
        \/ EnumerateThreads(s)
        \/ StartMonitor(s)
        \/ SetStartedFlag(s)

StartupSpec == StartupInit /\ [][StartupNext]_vars

(***************************************************************************)
(* A review pass: the reviewer has set "Hide Reviewed Trials", stands on   *)
(* some trial of the queue, and from here on only sets "Mark as Reviewed"  *)
(* on the trial that is shown.  The table is the loaded batch table with   *)
(* any marks an earlier part of the session left, and the file holds it.   *)
(***************************************************************************)
\* the loaded table with the trials of `reviewed` and `correct` marked
MarkedTable(reviewed, correct) ==
    [i \in 1..NumTrials |->
        [load_data(BatchFile(Manifest, SessionOutcomes))[i]
            EXCEPT !.manual_reviewed = (i \in reviewed),
                   !.manual_correct = (i \in correct)]]

ReviewPassInit ==
    /\ \E reviewed, correct \in SUBSET (1..NumTrials) :
        data = MarkedTable(reviewed, correct)
    /\ csv_file = to_csv(data)
    /\ csv_writable \in BOOLEAN
    /\ hide_reviewed = TRUE
    /\ show_low_conf \in BOOLEAN
    /\ threshold \in (IF show_low_conf THEN Thresholds ELSE {DefaultThreshold})
    /\ sort_priority \in BOOLEAN
    /\ filtered_indices =
        FilteredIndices(data, show_low_conf, threshold, TRUE, sort_priority)
    /\ view = IF filtered_indices = <<>> THEN "empty" ELSE "ok"
    /\ current_trial_idx \in
        (IF filtered_indices = <<>> THEN {0} ELSE Range(filtered_indices))
    /\ selected_index = current_trial_idx
    /\ stored_idx = current_trial_idx
    /\ BatchIdle
    /\ ResolveIdle
    /\ WatchdogIdle
    /\ StartupIdle

ReviewPassNext == update_reviewed

\* the reviewer goes on while there is a trial to mark
ReviewPassSpec ==
    /\ ReviewPassInit
    /\ [][ReviewPassNext]_vars
    /\ WF_vars(update_reviewed)

(***************************************************************************)
(* Properties                                                              *)
(***************************************************************************)
Rows == DOMAIN data

\* the position of row label i in a queue that holds it
Pos(queue, i) == CHOOSE p \in DOMAIN queue : queue[p] = i

\* a script run rendered the trial, or stopped for an empty queue
Recomputed == view \in {"ok", "empty"}

\* C1: once the view has been recomputed and the filtered+sorted sequence is
\* not empty, the current selection is a member of that sequence: it is the
\* selection the script run found stored if that is in the sequence, and the
\* first element of the sequence otherwise.
C1_SelectionInQueue ==
    view = "ok" =>
        /\ filtered_indices =
            FilteredIndices(data, show_low_conf, threshold, hide_reviewed,
                            sort_priority)
        /\ filtered_indices # <<>>
        /\ current_trial_idx \in Range(filtered_indices)
        /\ stored_idx \in Range(filtered_indices)
            => current_trial_idx = stored_idx
        /\ stored_idx \notin Range(filtered_indices)
            => current_trial_idx = filtered_indices[1]

\* the stored selection dropped out of a queue of several trials and the
\* selection was reset to the first of them
C1_Witness ==
    /\ view = "ok"
    /\ Len(filtered_indices) >= 2
    /\ stored_idx \in Rows
    /\ stored_idx \notin Range(filtered_indices)
    /\ current_trial_idx = filtered_indices[1]

\* a step that toggles "Mark as Reviewed" of the selected trial to true
ReviewedSetTrue ==
    /\ update_reviewed
    /\ ~data[selected_index].manual_reviewed

\* the positions behind the selected trial in the queue of the rendered page
\* whose trial is not reviewed
LaterUnreviewed ==
    {q \in DOMAIN filtered_indices :
        /\ q > Pos(filtered_indices, selected_index)
        /\ ~data[filtered_indices[q]].manual_reviewed}

\* the selection after the step is the trial at the smallest later position
\* that is not reviewed, if there is one
SelectsNextUnreviewed ==
    \A q \in LaterUnreviewed :
        (\A r \in LaterUnreviewed : q <= r)
            => current_trial_idx' = filtered_indices[q]

Cell(value) == IF value = NaN THEN <<>> ELSE value

\* the file holds exactly the table df: every column, every row, every value
FileHolds(file, df) ==
    /\ file.columns = BatchColumns \cup ReviewColumns
    /\ DOMAIN file.rows = DOMAIN df
    /\ \A i \in DOMAIN df :
        /\ file.rows[i].block = df[i].block
        /\ file.rows[i].trial = df[i].trial
        /\ file.rows[i].target_phrase = Cell(df[i].target_phrase)
        /\ file.rows[i].transcribed_text = Cell(df[i].transcribed_text)
        /\ file.rows[i].similarity_score = df[i].similarity_score
        /\ file.rows[i].error = Cell(df[i].error)
        /\ file.rows[i].manual_correct = df[i].manual_correct
        /\ file.rows[i].manual_reviewed = df[i].manual_reviewed
        /\ file.rows[i].original_transcription = Cell(df[i].original_transcription)

\* a step of one of the three editing callbacks
MutationStep == update_transcription \/ update_correct \/ update_reviewed

\* C3: every mutation is an update-then-persist step.  When an edit or toggle
\* completes with a successful write, the table in memory has changed and the
\* results file holds exactly that table, within the same step; the file
\* changes in no step but a mutation's or a re-run of the batch job (one
\* full-table write per mutation, none deferred, none without a mutation).
C3_UpdateThenPersist ==
    [][/\ (MutationStep /\ view' # "error")
            => /\ data' # data
               /\ csv_file' # csv_file
               /\ FileHolds(csv_file', data')
       /\ csv_file' # csv_file => (MutationStep \/ RerunTranscription)]_vars

\* the file holds the table of a session in which a transcription was
\* cleared and a trial was marked correct
C3_Witness ==
    /\ view = "ok"
    /\ FileHolds(csv_file, data)
    /\ \E i \in Rows :
        /\ data[i].transcribed_text = <<>>
        /\ data[i].original_transcription # NaN
    /\ \E i \in Rows : data[i].manual_correct /\ csv_file.rows[i].manual_correct

\* the scoring function: the ratio of the lower-cased, stripped strings, and
\* 0.0 when the transcription or the target is empty or missing
ExpectedScore(text, target) ==
    IF text \in {<<>>, NaN} \/ target \in {<<>>, NaN} THEN 0
    ELSE Ratio(Strip(Lower(text)), Strip(Lower(target)))

ScoresConsistent ==
    \A i \in Rows :
        data[i].similarity_score =
            ExpectedScore(data[i].transcribed_text, data[i].target_phrase)

\* C4: for every record of a table that the batch job produced, after any
\* sequence of edits and toggles (in every state that has a step to take,
\* which is every state of a session),
\* similarity_score is the scoring function of the record's
\* transcribed_text and target_phrase; a score in memory changes
\* only in an edit of that record's transcription (or when a new session
\* reads the table from the file again).
C4_ScoreIsFunctionOfTexts ==
    [][/\ ScoresConsistent
       /\ \A i \in Rows \cap DOMAIN data' :
            data'[i].similarity_score # data[i].similarity_score
                => \/ update_transcription /\ i = selected_index
                   \/ data' = load_data(csv_file)]_vars

\* a transcription was edited to a text that is neither empty nor the
\* target as written, and its score is the ratio of the normalized strings
C4_Witness ==
    \E i \in Rows :
        /\ data[i].transcribed_text = <<"a", "b">>
        /\ data[i].original_transcription = <<"b">>
        /\ data[i].target_phrase = <<"A", " ", "b", " ">>
        /\ data[i].similarity_score = 800
        /\ data[i].manual_reviewed

\* C5: an edit of the transcription stores the new text with a score of 0.0
\* whenever the new text is empty, and whenever the record's target phrase is
\* empty, whatever the new text; also when the empty target phrase was loaded
\* from the results file.
C5_EmptyTextOrTargetScoresZero ==
    [][update_transcription =>
        /\ data'[selected_index].transcribed_text = <<>>
            => data'[selected_index].similarity_score = 0
        /\ data[selected_index].target_phrase \in {<<>>, NaN}
            => /\ data'[selected_index].transcribed_text
                    # data[selected_index].transcribed_text
               /\ data'[selected_index].similarity_score = 0]_vars

\* the threshold predicate of the spec for row i at the current threshold
ThresholdPredicate(i) ==
    \/ data[i].similarity_score < threshold
    \/ data[i].manual_correct
    \/ data[i].manual_reviewed

\* C6: with the similarity-threshold filter active at threshold t, a record
\* passes that predicate exactly when similarity_score < t or manual_correct
\* or manual_reviewed: no record that fails it is in the filtered sequence,
\* and every record that passes it is in the sequence unless hide-reviewed
\* removes it; so a record with score >= t and manual_correct = true stays
\* in the sequence.
C6_ThresholdWithOverride ==
    (Recomputed /\ show_low_conf) =>
        \A i \in Rows :
            /\ i \in Range(filtered_indices) => ThresholdPredicate(i)
            /\ (ThresholdPredicate(i) /\ ~(hide_reviewed /\ data[i].manual_reviewed))
                => i \in Range(filtered_indices)
            /\ (/\ data[i].similarity_score >= threshold
                /\ data[i].manual_correct
                /\ ~hide_reviewed)
                => i \in Range(filtered_indices)

\* a trial with a score at or above the threshold that is marked correct and
\* not reviewed is in the queue, and one with such a score and no mark is not
C6_Witness ==
    /\ view = "ok"
    /\ show_low_conf
    /\ \E i \in Range(filtered_indices) :
        /\ data[i].similarity_score >= threshold
        /\ data[i].manual_correct
        /\ ~data[i].manual_reviewed
    /\ \E j \in Rows \ Range(filtered_indices) :
        data[j].similarity_score >= threshold

\* C7: a record is in the filtered sequence exactly when every active
\* predicate holds for it (and it is there once); with hide-reviewed active no
\* reviewed record is in the sequence, also when the threshold predicate's
\* override would keep it.
C7_AllActivePredicates ==
    Recomputed =>
        /\ \A i \in Rows :
            i \in Range(filtered_indices)
                <=> /\ show_low_conf => ThresholdPredicate(i)
                    /\ hide_reviewed => ~data[i].manual_reviewed
        /\ \A p, q \in DOMAIN filtered_indices :
            filtered_indices[p] = filtered_indices[q] => p = q
        /\ hide_reviewed =>
            \A i \in Range(filtered_indices) : ~data[i].manual_reviewed

\* both filters are active and a reviewed trial with a score at or above the
\* threshold is hidden while another trial is shown
C7_Witness ==
    /\ view = "ok"
    /\ show_low_conf
    /\ hide_reviewed
    /\ \E i \in Rows \ Range(filtered_indices) :
        /\ data[i].manual_reviewed
        /\ data[i].similarity_score >= threshold

\* (block, trial) of the trial at position p of the queue
BlockTrial(p) ==
    <<0, data[filtered_indices[p]].block, data[filtered_indices[p]].trial>>

\* C8: with the sort-priority toggle on, every unreviewed record of the
\* filtered+sorted sequence comes before every reviewed one, and within each
\* of the two groups the records are in ascending (block, trial) order.
C8_UnreviewedFirst ==
    (Recomputed /\ sort_priority) =>
        \A p, q \in DOMAIN filtered_indices :
            p < q =>
                LET rp == data[filtered_indices[p]].manual_reviewed
                    rq == data[filtered_indices[q]].manual_reviewed
                IN  /\ rp => rq
                    /\ rp = rq => ~KeyLess(BlockTrial(q), BlockTrial(p))

\* the queue holds two unreviewed trials and then a reviewed one whose
\* (block, trial) is smaller than theirs
C8_Witness ==
    /\ view = "ok"
    /\ sort_priority
    /\ Len(filtered_indices) >= 3
    /\ ~data[filtered_indices[1]].manual_reviewed
    /\ ~data[filtered_indices[2]].manual_reviewed
    /\ data[filtered_indices[3]].manual_reviewed
    /\ KeyLess(BlockTrial(3), BlockTrial(1))

\* C9: loading a results table is an additive, idempotent migration.  The
\* load of the results file gives each flag the file's value where the file
\* has the column and false where it lacks it; saving the loaded table and
\* loading it again gives the same table, any number of times; and a session
\* whose table the file holds gets the flags it has from a load.  (A
\* file without a header line cannot be loaded at all.)
C9_LoadIsIdempotentMigration ==
    LET loaded == load_data(csv_file)
        again == load_data(to_csv(loaded))
    IN  ~EmptyDataError(csv_file) =>
        /\ \A i \in DOMAIN loaded :
            /\ loaded[i].manual_correct =
                ("manual_correct" \in csv_file.columns
                    /\ csv_file.rows[i].manual_correct)
            /\ loaded[i].manual_reviewed =
                ("manual_reviewed" \in csv_file.columns
                    /\ csv_file.rows[i].manual_reviewed)
        /\ again = loaded
        /\ load_data(to_csv(again)) = loaded
        /\ (Recomputed /\ FileHolds(csv_file, data)) =>
            \A i \in Rows :
                /\ data[i].manual_correct = loaded[i].manual_correct
                /\ data[i].manual_reviewed = loaded[i].manual_reviewed

\* a session loaded a file that a former session wrote: a mark is kept, and
\* a transcription that was cleared is missing in the loaded table
C9_Witness ==
    /\ view = "ok"
    /\ data = load_data(csv_file)
    /\ "manual_correct" \in csv_file.columns
    /\ \E i \in Rows : data[i].manual_correct /\ ~data[i].manual_reviewed
    /\ \E i \in Rows :
        /\ data[i].transcribed_text = NaN
        /\ data[i].original_transcription # NaN

\* the table as the first load of the batch job's file gives it
FirstLoad == load_data(BatchFile(Manifest, SessionOutcomes))

\* C10: for every record, original_transcription is the value that
\* transcribed_text held at the first load of the table, in memory and, once
\* the column is written, in the file, after any sequence of edits, saves
\* and reloads.
C10_OriginalIsFirstLoad ==
    \A i \in Rows :
        /\ data[i].original_transcription = FirstLoad[i].transcribed_text
        /\ "original_transcription" \in csv_file.columns
            => ReadText(csv_file.rows[i].original_transcription)
                = FirstLoad[i].transcribed_text

\* one transcription was edited, another was cleared, and the table was
\* saved and loaded again: both originals differ from the texts
C10_Witness ==
    /\ data = load_data(csv_file)
    /\ "original_transcription" \in csv_file.columns
    /\ \E i \in Rows :
        /\ data[i].transcribed_text = <<"a", "b">>
        /\ data[i].original_transcription = <<"b">>
    /\ \E i \in Rows :
        /\ data[i].transcribed_text = NaN
        /\ data[i].original_transcription = <<"a">>

\* C14: relative navigation is bounded.  A step of the Next button starts at
\* a position before the last and selects exactly the trial at position + 1
\* of the queue, a step of the Previous button starts at a position after
\* the first and selects exactly the trial at position - 1; the queue is the
\* same before and after.  So there is no step of Next on the last trial and
\* none of Previous on the first: the selection stays, nothing wraps around.
C14_BoundedNavigation ==
    [][/\ NextTrial =>
            /\ Pos(filtered_indices, current_trial_idx) < Len(filtered_indices)
            /\ filtered_indices' = filtered_indices
            /\ current_trial_idx' =
                filtered_indices[Pos(filtered_indices, current_trial_idx) + 1]
            /\ selected_index' = current_trial_idx'
       /\ Previous =>
            /\ Pos(filtered_indices, current_trial_idx) > 1
            /\ filtered_indices' = filtered_indices
            /\ current_trial_idx' =
                filtered_indices[Pos(filtered_indices, current_trial_idx) - 1]
            /\ selected_index' = current_trial_idx']_vars

\* the selection is on the last of three trials: Next has no step, and
\* Previous has the step to the second trial
C14_Witness ==
    /\ view = "ok"
    /\ Len(filtered_indices) = 3
    /\ current_trial_idx = filtered_indices[3]
    /\ ~ENABLED NextTrial
    /\ ENABLED (Previous /\ current_trial_idx' = filtered_indices[2])

\* st.session_state.current_trial_idx as a step's callback leaves it: the
\* script run that follows finds it (stored_idx), unless the callback raised
KeyAfterCallback == IF view = "error" THEN current_trial_idx ELSE stored_idx

\* C15: a toggle of reviewed to true, when no later trial of the queue is
\* unreviewed, and every toggle of reviewed to false leave the stored selection
\* on the toggled trial: the toggle itself does not move it.  The script run
\* that follows keeps that selection when the trial is still in the queue.
C15_ToggleKeepsSelection ==
    [][(/\ update_reviewed
        /\ data[selected_index].manual_reviewed \/ LaterUnreviewed = {})
            => /\ KeyAfterCallback' = selected_index
               /\ (view' = "ok" /\ selected_index \in Range(filtered_indices'))
                    => current_trial_idx' = selected_index]_vars

\* the last trial of a queue of three is unreviewed while an earlier one is
\* unreviewed too: marking it reviewed leaves the selection on it; and a
\* reviewed trial is selected whose unmarking leaves the selection on it
C15_Witness ==
    /\ view = "ok"
    /\ Len(filtered_indices) = 3
    /\ \/ /\ selected_index = filtered_indices[3]
          /\ ~data[selected_index].manual_reviewed
          /\ ~data[filtered_indices[1]].manual_reviewed
          /\ ENABLED (/\ update_reviewed
                      /\ view' = "ok"
                      /\ data'[selected_index].manual_reviewed
                      /\ current_trial_idx' = selected_index)
       \/ /\ data[selected_index].manual_reviewed
          /\ selected_index # filtered_indices[1]
          /\ ENABLED (/\ update_reviewed
                      /\ view' = "ok"
                      /\ ~data'[selected_index].manual_reviewed
                      /\ current_trial_idx' = selected_index)

\* the table with only manual_correct of the selected record negated
CorrectToggled ==
    [data EXCEPT ![selected_index].manual_correct = ~data[selected_index].manual_correct]

\* C16 as stated: a toggle of correctness changes only manual_correct of the
\* selected record, and the selection after it is the selection before it.
C16_ToggleCorrectKeepsSelection ==
    [][update_correct =>
        /\ data' = CorrectToggled
        /\ current_trial_idx' = current_trial_idx]_vars

\* C16, amended: a toggle of correctness changes only manual_correct of the
\* selected record and does not itself move the stored selection; the script
\* run that follows keeps the selection as long as the record is in the
\* recomputed queue, and the record leaves the queue only when the mark was
\* removed, the threshold filter is on, its score is not below the threshold
\* and it is not reviewed.
C16_ToggleCorrectChangesOnlyMark ==
    [][update_correct =>
        /\ data' = CorrectToggled
        /\ KeyAfterCallback' = current_trial_idx
        /\ (view' = "ok" /\ selected_index \in Range(filtered_indices'))
            => current_trial_idx' = current_trial_idx
        /\ (view' # "error" /\ selected_index \notin Range(filtered_indices'))
            => /\ data[selected_index].manual_correct
               /\ show_low_conf
               /\ data[selected_index].similarity_score >= threshold
               /\ ~data[selected_index].manual_reviewed]_vars

\* a trial marked correct with a score at the threshold is selected and is
\* not the first of the queue: removing the mark takes it out of the queue
\* and the selection goes to the first trial
C16_Witness ==
    /\ view = "ok"
    /\ data[selected_index].manual_correct
    /\ data[selected_index].similarity_score >= threshold
    /\ selected_index # filtered_indices[1]
    /\ ENABLED (/\ update_correct
                /\ view' = "ok"
                /\ data' = CorrectToggled
                /\ selected_index \notin Range(filtered_indices')
                /\ current_trial_idx' = filtered_indices'[1])

\* a step of an editing callback whose write fails: the table in memory was
\* updated, and df.to_csv raised
FailedWriteStep == MutationStep /\ ~csv_writable /\ data' # data

\* the table keeps the edit: it differs from the table before the callback
\* in the selected record and nowhere else
EditKept ==
    /\ DOMAIN data' = DOMAIN data
    /\ data'[selected_index] # data[selected_index]
    /\ \A i \in Rows \ {selected_index} : data'[i] = data[i]

\* C17 as stated: when the full-table write of an edit or toggle fails, the
\* failure is surfaced (the page shows the exception), the table in memory
\* keeps the edit, and the file keeps its previous content, so that it does
\* not hold the table in memory.
C17_FailedWriteKeepsFile ==
    [][FailedWriteStep
        => /\ view' = "error"
           /\ EditKept
           /\ csv_file' = csv_file
           /\ ~FileHolds(csv_file', data')]_vars

\* C17 as the code has it: when the full-table write of an edit or toggle
\* fails, the failure is surfaced, the table in memory keeps the edit, and
\* the file does not hold the table in memory: it keeps its previous content
\* when it could not be opened, and is left without content when the write
\* failed after the file was opened.
C17_FailedWriteLeavesFileStale ==
    [][FailedWriteStep
        => /\ view' = "error"
           /\ EditKept
           /\ csv_file' \in {csv_file, NoContent}
           /\ ~FileHolds(csv_file', data')]_vars

\* the page shows the exception of a failed write: the table in memory has a
\* mark that the file, which kept its content, does not have
C17_Witness ==
    /\ view = "error"
    /\ ~csv_writable
    /\ ~EmptyDataError(csv_file)
    /\ \E i \in Rows :
        /\ data[i].manual_reviewed
        /\ ~load_data(csv_file)[i].manual_reviewed

(***************************************************************************)
(* Properties of the batch job (BatchSpec).                                *)
(***************************************************************************)
\* the manifest rows whose audio file is missing or whose transcription raises
FailedRows ==
    {i \in DOMAIN job_env.manifest : job_env.outcomes[i].kind \in {"missing", "raises"}}

\* the job gets as far as the loop over the manifest rows
JobReadsRows ==
    /\ job_env.manifest_exists
    /\ job_env.ffmpeg
    /\ job_env.whisper
    /\ job_env.manifest_readable

\* C11: a single-row failure never aborts the batch.  For every manifest and
\* every subset of rows that fail (audio missing, or the engine raises), the
\* results are one record per manifest row processed so far, in manifest
\* order; a failed row has an error and score 0.0, a row that did not fail
\* has its transcription and no error, also behind a failed row; when the job
\* has returned there is a record for every manifest row, and a successful
\* write puts exactly these records into the file.
C11_RowFailureNeverAborts ==
    /\ Len(results) <= Len(job_env.manifest)
    /\ \A i \in DOMAIN results :
        /\ results[i].block = job_env.manifest[i].block
        /\ results[i].trial = job_env.manifest[i].trial
        /\ results[i].target_phrase = job_env.manifest[i].phrase
        /\ i \in FailedRows =>
            /\ results[i].error # <<>>
            /\ results[i].similarity_score = 0
        /\ i \notin FailedRows =>
            /\ results[i].error = <<>>
            /\ results[i].transcribed_text # <<>>
    /\ (job_pc = "returned" /\ JobReadsRows) => Len(results) = Len(job_env.manifest)
    /\ job_returned = "True" => (csv_exists /\ csv_file.rows = results)

\* the job has returned True for a manifest whose first row failed and
\* whose second row was transcribed and scored
C11_Witness ==
    /\ job_pc = "returned"
    /\ job_returned = "True"
    /\ Len(results) = 2
    /\ 1 \in FailedRows
    /\ results[1].error # <<>>
    /\ results[2].transcribed_text = <<"a", "b">>
    /\ results[2].similarity_score = 1000
    /\ csv_file.rows = results

\* C12: a manifest row whose audio file does not exist gets the result
\* record with error "Audio file not found", an empty transcription and
\* score 0.0, and the engine is not called for that row (it is called for
\* every other row that was processed).
C12_MissingAudioRow ==
    \A i \in DOMAIN results :
        IF job_env.outcomes[i].kind = "missing"
        THEN /\ results[i].error = <<"Audio file not found">>
             /\ results[i].transcribed_text = <<>>
             /\ results[i].similarity_score = 0
             /\ i \notin engine_calls
        ELSE i \in engine_calls

\* the audio of the first row is missing, the engine was called for the
\* second row only
C12_Witness ==
    /\ Len(results) = 2
    /\ job_env.outcomes[1].kind = "missing"
    /\ results[1].error = <<"Audio file not found">>
    /\ engine_calls = {2}

\* the manifest is missing, ffmpeg is not on the path, the model does not
\* load, or the manifest has no rows
FatalPrecondition ==
    \/ ~job_env.manifest_exists
    \/ ~job_env.ffmpeg
    \/ ~job_env.whisper
    \/ job_env.manifest = <<>>

\* C13: when the manifest is missing, ffmpeg is unavailable, the engine does
\* not initialize or the manifest yields no result row, no step of the job
\* creates, truncates or modifies the results file, and the job returns
\* failure.
C13_FatalLeavesFileAlone ==
    [][FatalPrecondition =>
        /\ UNCHANGED <<csv_exists, csv_file>>
        /\ job_pc' = "returned" => job_returned' = "False"]_vars

\* the job returned False for a manifest without rows, on a disk that
\* takes the write, and the results file of the earlier run is as it was
C13_Witness ==
    /\ job_pc = "returned"
    /\ job_returned = "False"
    /\ JobReadsRows
    /\ job_env.manifest = <<>>
    /\ job_env.disk = "written"
    /\ csv_exists
    /\ csv_file = EarlierFile

(***************************************************************************)
(* Properties of the audio path resolution (ResolveSpec).                  *)
(***************************************************************************)
\* the list the call went through
Tried == Candidates(resolve_args.base_dir, resolve_args.pid, resolve_args.filename)

\* the path in the CSV with forward slashes
Literal == NormalizeSeparators(resolve_args.filename)

\* path `rel` under directory `dir`; an absolute `rel` stays what it is
Under(dir, rel) ==
    IF Head(rel) = "/" THEN rel
    ELSE IF dir = <<>> THEN rel
    ELSE dir \o <<"/">> \o rel

ParticipantDir == resolve_args.base_dir \o <<"/", resolve_args.pid>>

ParticipantPrefix == <<"data", "/", resolve_args.pid, "/">>

\* the data root's parent: the root without its last name "data"
RootParent ==
    LET root == resolve_args.base_dir
    IN  IF Len(root) = 1 THEN <<>> ELSE SubSeq(root, 1, Len(root) - 2)

\* the candidates (a), (b), (c), (d) in their order; (c) is generated for a
\* path that starts with data/<participant>/, (d) for one that starts with
\* data/ (every data root is named "data")
ExpectedCandidates ==
    <<Literal, Under(ParticipantDir, Literal)>>
    \o (IF StartsWith(Literal, ParticipantPrefix)
        THEN <<Under(ParticipantDir,
                     SubSeq(Literal, Len(ParticipantPrefix) + 1, Len(Literal)))>>
        ELSE <<>>)
    \o (IF StartsWith(Literal, <<"data", "/">>)
        THEN <<Under(RootParent, Literal)>>
        ELSE <<>>)

\* C18: audio path resolution tries its candidates in the order (a) literal
\* path, (b) path under the participant's directory of the data root,
\* (c) participant-prefix-stripped path, (d) path relative to the data root's
\* parent; it returns the first candidate that exists, and it fails exactly
\* when no generated candidate exists.
C18_FirstExistingCandidateWins ==
    final_audio_path.state # "unset" =>
        /\ Tried = ExpectedCandidates
        /\ final_audio_path.state = "found" =>
            \E i \in DOMAIN ExpectedCandidates :
                /\ final_audio_path.path = ExpectedCandidates[i]
                /\ ExpectedCandidates[i] \in fs_paths
                /\ \A j \in 1..(i - 1) : ExpectedCandidates[j] \notin fs_paths
        /\ final_audio_path.state = "None"
            <=> \A i \in DOMAIN ExpectedCandidates :
                    ExpectedCandidates[i] \notin fs_paths

\* the literal path and the path under the participant's directory both
\* exist, and the call returned the literal path
C18_Witness ==
    /\ final_audio_path.state = "found"
    /\ ExpectedCandidates[1] # ExpectedCandidates[2]
    /\ ExpectedCandidates[2] \in fs_paths
    /\ final_audio_path.path = ExpectedCandidates[1]

(***************************************************************************)
(* Properties of the idle watchdog (WatchdogSpec).                         *)
(***************************************************************************)
\* the step in which the watchdog sends SIGINT to the process
Terminates == process_alive /\ ~process_alive'

\* a step in which the watchdog counts the sessions
ChecksSessions == FirstCheck \/ SecondCheck

\* C19: the idle watchdog terminates the process only after it observed zero
\* active sessions at two consecutive checks separated by the grace period
\* (it terminates in its second check, which finds no session, the first
\* check found none, and the grace period has passed since); a check that
\* observes an active session does not terminate the process and ends the
\* cycle; and if from some time on no session is active, the watchdog
\* eventually terminates the process.
C19_TerminatesAfterTwoIdleChecks ==
    /\ [][/\ Terminates
              => /\ SecondCheck
                 /\ sessions = 0
                 /\ active_sessions = 0
                 /\ since_check >= GracePeriod
          /\ (ChecksSessions /\ active_sessions > 0)
              => /\ process_alive'
                 /\ monitor_pc' = "loop_sleep"
                 /\ monitor_timer' = LoopSleep]_vars
    /\ (<>[](active_sessions = 0) => <>(~process_alive))

\* the process was terminated by the second of two checks that found no
\* session
C19_Witness ==
    /\ ~process_alive
    /\ sessions = 0
    /\ active_sessions = 0
    /\ monitor_pc = "loop_sleep"

(***************************************************************************)
(* Properties of the start-up check (StartupSpec).                         *)
(***************************************************************************)
\* C20: at most one ShutdownMonitor thread runs in the process at any time,
\* for any number of sessions and script runs, also when two sessions run
\* the start-up check (enumerate the threads, then start the thread)
\* interleaved.
C20_AtMostOneMonitor == monitor_threads <= 1

(***************************************************************************)
(* Properties of the Re-run Transcription button (Spec).                   *)
(***************************************************************************)
\* a step of the button in which the job wrote its results
RerunSucceeds ==
    /\ RerunTranscription
    /\ csv_writable
    /\ csv_file' = BatchFile(Manifest, SessionOutcomes)

\* C21: after a successful Re-run Transcription for the participant whose
\* table is loaded in the session, the table in memory is the table of the
\* newly written results file, so that the next edit or toggle, which
\* writes the table in memory, does not write records of the table from
\* before the re-run over the new results.
C21_RerunReloadsTable ==
    [][RerunSucceeds => data' = load_data(csv_file')]_vars

(***************************************************************************)
(* Properties of a review pass (ReviewPassSpec).                           *)
(***************************************************************************)
\* the trial that is shown with "Hide Reviewed Trials" set is not reviewed
SelectionUnreviewedWhenHidden ==
    (hide_reviewed /\ view = "ok") => ~data[selected_index].manual_reviewed

\* the pass is over: no trial is left in the sequence
PassOver == hide_reviewed /\ view = "empty" /\ filtered_indices = <<>>

\* C22: with hide-reviewed active the selected record is unreviewed after
\* each recompute; and a reviewer who only marks the current selection
\* reviewed (each write succeeding) eventually reaches the empty filtered
\* sequence, with every record that was in the sequence at the start
\* marked reviewed, whatever the sort mode, the threshold filter and the
\* starting selection.
C22_ReviewPassEnds ==
    /\ []SelectionUnreviewedWhenHidden
    /\ \A i \in 1..NumTrials :
        (csv_writable /\ i \in Range(filtered_indices))
            => <>(PassOver /\ data[i].manual_reviewed)

\* the pass ended with the natural order and the threshold filter set: the
\* last trial marked is reviewed and out of the sequence, and a trial that
\* never passed the threshold filter is still unreviewed
C22_Witness ==
    /\ PassOver
    /\ ~sort_priority
    /\ show_low_conf
    /\ stored_idx # 0
    /\ data[stored_idx].manual_reviewed
    /\ \E i \in Rows : ~data[i].manual_reviewed

(***************************************************************************)
(* Properties of the auto-advance and the recompute behind it (Spec).      *)
(***************************************************************************)
\* a toggle of reviewed to true in which the auto-advance stores another
\* trial than the selected one: the script run that follows finds it in
\* st.session_state.current_trial_idx
AutoAdvancePicks ==
    /\ ReviewedSetTrue
    /\ view' # "error"
    /\ stored_idx' # current_trial_idx

\* C23: when auto-advance picks a record after a toggle of reviewed to true,
\* that record is unreviewed and is in the sequence recomputed after the
\* toggle under the unchanged filter and sort settings (as it was in the
\* sequence before), so the recompute keeps it as the selection instead of
\* resetting the selection to the first element.
C23_PickedTrialStaysSelected ==
    [][AutoAdvancePicks
        => /\ ~data'[stored_idx'].manual_reviewed
           /\ stored_idx' \in Range(filtered_indices)
           /\ stored_idx' \in Range(filtered_indices')
           /\ <<show_low_conf', threshold', hide_reviewed', sort_priority'>>
                = <<show_low_conf, threshold, hide_reviewed, sort_priority>>
           /\ view' = "ok"
           /\ current_trial_idx' = stored_idx'
           /\ selected_index' = stored_idx']_vars

\* the selected trial is not the first of the queue; marking it reviewed
\* makes the auto-advance pick a trial that the recompute keeps, and that is
\* not the first element of the recomputed sequence
C23_Witness ==
    /\ view = "ok"
    /\ ~data[selected_index].manual_reviewed
    /\ ENABLED (/\ update_reviewed
                /\ view' = "ok"
                /\ stored_idx' # current_trial_idx
                /\ current_trial_idx' = stored_idx'
                /\ current_trial_idx' # filtered_indices'[1])

====
